---- MODULE Spec2Model ----
(***************************************************************************)
(* borg.platform.base: sync_dir, SyncFile and SaveFile, run against a file *)
(* system with a volatile view (what open()/read() see) and a durable view *)
(* (what survives a crash).                                                *)
(*                                                                         *)
(* File system model.  A directory maps names to inode numbers; an inode   *)
(* holds a byte sequence.  Data reaches the durable view by fdatasync or   *)
(* by background writeback (byte by byte, in order).  Directory changes    *)
(* (create, unlink, rename) reach it by fsync of the directory or by       *)
(* background journal commits, in the order they were made; a rename is    *)
(* committed as one indivisible change.  A crash replaces the volatile     *)
(* view by the durable one and ends the process.                           *)
(*                                                                         *)
(* Every OS call of the code is one step, and every fallible OS call may   *)
(* fail with an error of any class in OSErr.  os.close() of the read-only  *)
(* directory descriptor in sync_dir has no deferred write to report and is *)
(* modelled as always succeeding.                                          *)
(***************************************************************************)
EXTENDS Integers, Sequences, FiniteSets, TLC

VARIABLES
    pc,        \* position of the single thread of control
    syRet,     \* who called SyncFile.sync(): "body" or "close"
    sdRet,     \* who called sync_dir(): "close" (SyncFile.close) or "exit" (SaveFile.__exit__)
    exc,       \* the error raised by the scoped work (exc_type/exc_val), NoErr if none
    raised,    \* the error that reaches the caller of the with-statement, NoErr if none
    buf,       \* self.fd's user-space buffer: bytes written and not yet flushed
    fdOpen,    \* the session's descriptor is open
    fileno,    \* inode behind the session's descriptor (0 before the open)
    dirfd,     \* sync_dir's directory descriptor is open
    sdErr,     \* the error sync_dir carries through its finally block
    sdLog,     \* history of the current/last sync_dir call
    names,     \* volatile directory: name -> inode
    data,      \* volatile inode contents, indexed by inode number
    dnames,    \* durable directory
    ddata,     \* durable inode contents
    journal,   \* directory states made and not yet durable, oldest first
    crashed,   \* a crash has happened
    written,   \* history: bytes passed to write(), in program order
    nwrites,   \* history: number of write() calls
    nsyncs,    \* history: number of sync() calls made by the scoped work
    old,       \* history: what a reader of the target saw before __enter__
    stale,     \* history: what the temporary path held before __enter__
    xlog,      \* history: steps of __exit__ completed without raising, in order
    barrier,   \* history: number of bytes written before the last sync() that returned
    enterErr,  \* history: the error an OS call of __enter__ raised and __enter__ did not tolerate
    me,        \* which transaction the thread of control is running
    other,     \* the local state of the transaction that is not running, if there is one
    faults,    \* OS calls may fail for reasons outside the model (I/O error, unsupported call)
    txn,       \* history: number of transactions started on the target so far
    gfSt,      \* get_flags: the stat value passed
    gfPath,    \* get_flags: the path passed
    gfOut      \* get_flags: {} before the call returns, {the value returned} after

vars == <<pc, syRet, sdRet, exc, raised, buf, fdOpen, fileno, dirfd, sdErr, sdLog,
          names, data, dnames, ddata, journal, crashed, written, nwrites, nsyncs,
          old, stale, xlog, barrier, enterErr, me, other, faults, txn, gfSt, gfPath, gfOut>>

\* ------------------------------------------------------------------ bounds
MaxWrites == 2
MaxSyncs == 1

\* Bytes the scoped work writes; bytes of the target's prior content; bytes of
\* a stale temporary file.  The three alphabets are disjoint so that a mix of
\* old, stale and new bytes is recognisable.
NewBytes == {"n", "m"}
\* Each transaction of a sequence writes bytes of its own, so that what an
\* earlier transaction left behind is recognisable in a later one.
TxnBytes(k) == IF k = 1 THEN NewBytes ELSE IF k = 2 THEN {"n2", "m2"} ELSE {"n3", "m3"}
OldContents == {<<"o">>, <<"o", "p">>}
StaleContents == {<<"s">>}

\* ------------------------------------------------------------------ errors
\* OS error classes a fallible call may raise.  EINVAL is errno.EINVAL.
OSErr == {"EINVAL", "EIO"}

\* The classes a fallible call may raise in the current run.
MayRaise == IF faults THEN OSErr ELSE {}

NoErr == [cls |-> "none", at |-> "none", ctx |-> "none"]
Err(c, site, ctx) == [cls |-> c, at |-> site, ctx |-> ctx]

\* ------------------------------------------------------------------ paths
path == <<"P">>
SUFFIX == <<".tmp">>
tmppath == path \o SUFFIX

\* ------------------------------------------------------------------ file system
Exists(dir, p) == p \in DOMAIN dir

\* What a reader opening p by name obtains: {} when no such file, {content} otherwise.
ReadFile(dir, dat, p) == IF Exists(dir, p) THEN {dat[dir[p]]} ELSE {}
Read(p) == ReadFile(names, data, p)
DurableRead(p) == ReadFile(dnames, ddata, p)

Unlink(dir, p) == [q \in DOMAIN dir \ {p} |-> dir[q]]
Link(dir, p, ino) == [q \in DOMAIN dir \cup {p} |-> IF q = p THEN ino ELSE dir[q]]
Rename(dir, src, dst) == Unlink(Link(dir, dst, dir[src]), src)

IsPrefix(s, t) == Len(s) <= Len(t) /\ SubSeq(t, 1, Len(s)) = s

\* ------------------------------------------------------------------ frames
fsVars == <<names, data, dnames, ddata, journal>>
sdVars == <<dirfd, sdErr, sdLog, sdRet>>
histVars == <<written, nwrites, nsyncs, old, stale>>
\* What no step of a single transaction changes.
auxVars == <<me, other, faults, txn, gfSt, gfPath, gfOut>>

IdleLog == [st |-> "idle", open |-> NoErr, sync |-> NoErr, out |-> NoErr]
RunningLog == [IdleLog EXCEPT !.st = "running"]

\* ------------------------------------------------------------------ initial state
\* SaveFile.__init__ has run (path and tmppath are fixed).  The target is absent
\* or holds some old content; a stale temporary file may be present.  Whatever
\* exists has been on disk since before the transaction, so it is durable.
InitTransaction ==
    \E o \in {{}} \cup {{c} : c \in OldContents},
       s \in {{}} \cup {{c} : c \in StaleContents} :
        LET od == IF o = {} THEN <<>> ELSE <<CHOOSE c \in o : TRUE>>
            sd == IF s = {} THEN <<>> ELSE <<CHOOSE c \in s : TRUE>>
            dat == od \o sd
            dom == (IF o = {} THEN {} ELSE {path}) \cup (IF s = {} THEN {} ELSE {tmppath})
            dir == [q \in dom |-> IF q = path THEN 1 ELSE Len(dat)]
        IN  /\ names = dir /\ dnames = dir
            /\ data = dat /\ ddata = dat
            /\ old = o /\ stale = s
    /\ journal = <<>>
    /\ pc = "enter_unlink"
    /\ syRet = "none" /\ sdRet = "none"
    /\ exc = NoErr /\ raised = NoErr
    /\ buf = <<>> /\ fdOpen = FALSE /\ fileno = 0
    /\ dirfd = FALSE /\ sdErr = NoErr /\ sdLog = IdleLog
    /\ crashed = FALSE
    /\ written = <<>> /\ nwrites = 0 /\ nsyncs = 0
    /\ xlog = <<>> /\ barrier = 0 /\ enterErr = NoErr

\* No get_flags call is modelled along with a transaction.
NoFlagsCall == gfSt = [st_mode |-> "none"] /\ gfPath = <<>> /\ gfOut = {}

\* One transaction, the first on its target, running alone.
Init ==
    /\ InitTransaction
    /\ me = 1 /\ other = "none" /\ faults = TRUE /\ txn = 1
    /\ NoFlagsCall

\* ------------------------------------------------------------------ SaveFile.__enter__
\* except FileNotFoundError: pass
EnterToleratesAll(err) == TRUE
EnterTolerated(err) == err.cls = "ENOENT"

\* os.unlink(self.tmppath): removes the name, or raises FileNotFoundError when
\* there is no such name, or raises another OS error; only the first is tolerated.
EnterUnlink ==
    /\ pc = "enter_unlink" /\ ~crashed
    /\ UNCHANGED <<auxVars, barrier>>
    /\ \/ /\ Exists(names, tmppath)
          /\ names' = Unlink(names, tmppath)
          /\ journal' = Append(journal, names')
          /\ pc' = "enter_open"
          /\ UNCHANGED <<raised, enterErr>>
       \/ \E c \in MayRaise \cup {"ENOENT"} :
          LET e == Err(c, "unlink", "enter") IN
          /\ c = "ENOENT" => ~Exists(names, tmppath)
          /\ enterErr' = IF c = "ENOENT" THEN enterErr ELSE e
          /\ IF EnterTolerated(e)
             THEN pc' = "enter_open" /\ UNCHANGED raised
             ELSE pc' = "done" /\ raised' = e
          /\ UNCHANGED <<names, journal>>
    /\ UNCHANGED <<syRet, exc, buf, fdOpen, fileno, sdVars, data, dnames, ddata,
                   crashed, histVars, xlog>>

\* self.fd = platform.SyncFile(self.tmppath, self.binary)
SessionOnTarget == path
SessionPath == tmppath

\* mode = 'xb' if binary else 'x': the open fails when the name exists.
OpenOverwrites(dir, p) == FALSE
OpenRefused(dir, p) == Exists(dir, p)

\* SyncFile.__init__: open(path, 'x') creates the file exclusively and the
\* session holds its descriptor.
EnterOpen ==
    /\ pc = "enter_open" /\ ~crashed
    /\ UNCHANGED <<auxVars, barrier>>
    /\ IF OpenRefused(names, SessionPath)
       THEN /\ raised' = Err("EEXIST", "open", "enter")
            /\ enterErr' = raised'
            /\ pc' = "done"
            /\ UNCHANGED <<names, data, ddata, journal, fdOpen, fileno>>
       ELSE \/ /\ data' = Append(data, <<>>)
               /\ ddata' = Append(ddata, <<>>)
               /\ fileno' = Len(data) + 1
               /\ names' = Link(names, SessionPath, fileno')
               /\ journal' = Append(journal, names')
               /\ fdOpen' = TRUE
               /\ pc' = "body"
               /\ UNCHANGED <<raised, enterErr>>
            \/ \E c \in MayRaise :
               /\ raised' = Err(c, "open", "enter")
               /\ enterErr' = raised'
               /\ pc' = "done"
               /\ UNCHANGED <<names, data, ddata, journal, fdOpen, fileno>>
    /\ UNCHANGED <<syRet, exc, buf, sdVars, dnames, crashed, histVars, xlog>>

\* ------------------------------------------------------------------ the scoped work
\* self.fd.write(data): the bytes join the buffer after those already there.
BufWriteSwapped(b, d) == d \o b
BufWrite(b, d) == b \o d

\* SyncFile.write.  The buffered writer may hand any leading part of its buffer
\* to the OS during the call; a failing call raises into the scoped work.
Write ==
    /\ pc = "body" /\ ~crashed
    /\ UNCHANGED <<auxVars, barrier, enterErr>>
    /\ nwrites < MaxWrites
    /\ nwrites' = nwrites + 1
    /\ \/ \E b \in TxnBytes(txn) :
              LET nb == BufWrite(buf, <<b>>) IN
              \E k \in 0..Len(nb) :
                  /\ data' = [data EXCEPT ![fileno] = @ \o SubSeq(nb, 1, k)]
                  /\ buf' = SubSeq(nb, k + 1, Len(nb))
                  /\ written' = written \o <<b>>
                  /\ UNCHANGED <<pc, syRet, exc>>
       \/ \E c \in MayRaise :
              /\ exc' = Err(c, "write", "body")
              /\ pc' = "flush" /\ syRet' = "close"
              /\ UNCHANGED <<data, buf, written>>
    /\ UNCHANGED <<raised, fdOpen, fileno, sdVars, names, dnames, ddata, journal,
                   crashed, nsyncs, old, stale, xlog>>

\* The scoped work calls the session's sync().
BodySync ==
    /\ pc = "body" /\ ~crashed
    /\ UNCHANGED <<auxVars, barrier, enterErr>>
    /\ nsyncs < MaxSyncs
    /\ nsyncs' = nsyncs + 1
    /\ pc' = "flush" /\ syRet' = "body"
    /\ UNCHANGED <<exc, raised, buf, fdOpen, fileno, sdVars, fsVars, crashed,
                   written, nwrites, old, stale, xlog>>

\* The scoped work raises an error of its own; __exit__ starts with exc_type set.
BodyRaise ==
    /\ pc = "body" /\ ~crashed
    /\ UNCHANGED <<auxVars, barrier, enterErr>>
    /\ exc' = Err("AppError", "raise", "body")
    /\ pc' = "flush" /\ syRet' = "close"
    /\ UNCHANGED <<raised, buf, fdOpen, fileno, sdVars, fsVars, crashed, histVars, xlog>>

\* The scoped work completes; __exit__ starts with exc_type None.
BodyEnd ==
    /\ pc = "body" /\ ~crashed
    /\ UNCHANGED <<auxVars, barrier, enterErr>>
    /\ pc' = "flush" /\ syRet' = "close"
    /\ UNCHANGED <<exc, raised, buf, fdOpen, fileno, sdVars, fsVars, crashed, histVars, xlog>>

\* ------------------------------------------------------------------ SyncFile.sync
\* An error raised inside sync(): into the scoped work when the scoped work
\* called sync() (then __exit__ starts with exc_type set), out of __exit__ to
\* the caller when SyncFile.close() called it.
ThrowKeepsGoing(err) ==
    IF syRet = "body"
    THEN exc' = err /\ pc' = "flush" /\ syRet' = "close" /\ UNCHANGED <<raised, xlog>>
    ELSE raised' = err /\ pc' = "x_replace" /\ UNCHANGED <<exc, syRet, xlog>>
Throw(err) ==
    IF syRet = "body"
    THEN exc' = err /\ pc' = "flush" /\ syRet' = "close" /\ UNCHANGED <<raised, xlog>>
    ELSE raised' = err /\ pc' = "done" /\ UNCHANGED <<exc, syRet, xlog>>

\* A step of sync() completed: note it when it is part of __exit__.
Pass(step, next) ==
    /\ pc' = next
    /\ xlog' = IF syRet = "close" THEN Append(xlog, step) ELSE xlog
    /\ UNCHANGED <<exc, raised, syRet>>

\* self.fd.flush(): the whole buffer reaches the OS; a failing flush may have
\* handed over a leading part of it.
FlushedDropsBuffer(dat, ino, b) == dat
Flushed(dat, ino, b) == [dat EXCEPT ![ino] = @ \o b]

\* self.fd.flush() is followed by platform.fdatasync(self.fileno).
SkipsDataSync == "fadvise"
AfterFlush == "fdatasync"

Flush ==
    /\ pc = "flush" /\ ~crashed
    /\ UNCHANGED <<auxVars, barrier, enterErr>>
    /\ \/ /\ data' = Flushed(data, fileno, buf)
          /\ buf' = <<>>
          /\ Pass("flush", AfterFlush)
       \/ \E c \in MayRaise, k \in 0..Len(buf) :
          /\ data' = Flushed(data, fileno, SubSeq(buf, 1, k))
          /\ buf' = SubSeq(buf, k + 1, Len(buf))
          /\ Throw(Err(c, "flush", syRet))
    /\ UNCHANGED <<fdOpen, fileno, sdVars, names, dnames, ddata, journal, crashed, histVars>>

\* platform.fdatasync(self.fileno): the file's content becomes durable.
FdatasyncNoop(dd, dat, ino) == dd
Fdatasynced(dd, dat, ino) == [dd EXCEPT ![ino] = dat[ino]]

Fdatasync ==
    /\ pc = "fdatasync" /\ ~crashed
    /\ UNCHANGED <<auxVars, barrier, enterErr>>
    /\ \/ /\ ddata' = Fdatasynced(ddata, data, fileno)
          /\ Pass("fdatasync", "fadvise")
       \/ \E c \in MayRaise :
          /\ Throw(Err(c, "fdatasync", syRet))
          /\ UNCHANGED ddata
    /\ UNCHANGED <<buf, fdOpen, fileno, sdVars, names, data, dnames, journal, crashed, histVars>>

\* os.posix_fadvise(..., POSIX_FADV_DONTNEED) where the platform has it: no
\* effect on content.  sync() returns to its caller.
Fadvise ==
    /\ pc = "fadvise" /\ ~crashed
    /\ UNCHANGED <<auxVars, enterErr>>
    /\ \/ /\ Pass("fadvise", IF syRet = "body" THEN "body" ELSE "fd_close")
          /\ barrier' = Len(written)
       \/ \E c \in MayRaise :
          /\ Throw(Err(c, "fadvise", syRet))
          /\ UNCHANGED barrier
    /\ UNCHANGED <<buf, fdOpen, fileno, sdVars, fsVars, crashed, histVars>>

\* ------------------------------------------------------------------ SyncFile.close
\* self.fd.close() after sync(): releases the descriptor (also when it reports
\* an error), then sync_dir(os.path.dirname(self.fd.name)) is called.
FdClose ==
    /\ pc = "fd_close" /\ ~crashed
    /\ UNCHANGED <<auxVars, barrier, enterErr>>
    /\ fdOpen' = FALSE
    /\ \/ /\ pc' = "sd_open" /\ sdRet' = "close" /\ sdLog' = RunningLog
          /\ xlog' = Append(xlog, "close")
          /\ UNCHANGED raised
       \/ \E c \in MayRaise :
          /\ raised' = Err(c, "close", "close")
          /\ pc' = "done"
          /\ UNCHANGED <<sdRet, sdLog, xlog>>
    /\ UNCHANGED <<syRet, exc, buf, fileno, dirfd, sdErr, fsVars, crashed, histVars>>

\* ------------------------------------------------------------------ sync_dir
\* if os_error.errno != errno.EINVAL: raise
ToleratesAll(err) == TRUE
Tolerated(err) == err.cls = "EINVAL"

\* os.fsync(fd) on the directory: its current entries become the durable ones.
DirSyncNoop(dn, n) == dn
DirSynced(dn, n) == n

\* fd = os.open(path, os.O_RDONLY)
SdOpen ==
    /\ pc = "sd_open" /\ ~crashed
    /\ UNCHANGED <<auxVars, barrier, enterErr>>
    /\ \/ /\ dirfd' = TRUE
          /\ pc' = "sd_fsync"
          /\ xlog' = Append(xlog, "sd_open")
          /\ UNCHANGED <<raised, sdLog>>
       \/ \E c \in MayRaise :
          LET e == Err(c, "sd_open", sdRet) IN
          /\ sdLog' = [sdLog EXCEPT !.st = "returned", !.open = e, !.out = e]
          /\ raised' = e
          /\ pc' = "done"
          /\ UNCHANGED <<dirfd, xlog>>
    /\ UNCHANGED <<syRet, sdRet, sdErr, exc, buf, fdOpen, fileno, fsVars, crashed, histVars>>

\* os.fsync(fd) in the try block: every directory change made so far becomes
\* durable; an OSError is kept for re-raising unless it is tolerated.
SdFsync ==
    /\ pc = "sd_fsync" /\ ~crashed
    /\ UNCHANGED <<auxVars, barrier, enterErr>>
    /\ pc' = "sd_close"
    /\ \/ /\ dnames' = DirSynced(dnames, names)
          /\ journal' = <<>>
          /\ xlog' = Append(xlog, "sd_fsync")
          /\ UNCHANGED <<sdErr, sdLog>>
       \/ \E c \in MayRaise :
          LET e == Err(c, "sd_fsync", sdRet) IN
          /\ sdLog' = [sdLog EXCEPT !.sync = e]
          /\ sdErr' = IF Tolerated(e) THEN NoErr ELSE e
          /\ xlog' = IF Tolerated(e) THEN Append(xlog, "sd_fsync_unsupported") ELSE xlog
          /\ UNCHANGED <<dnames, journal>>
    /\ UNCHANGED <<syRet, sdRet, dirfd, exc, raised, buf, fdOpen, fileno, names, data, ddata,
                   crashed, histVars>>

\* What the with-statement propagates when __exit__ returns: `return` hands back
\* None, which is false, so the error of the scoped work (if any) is re-raised.
ExitReturnsTrue(e) == NoErr
Reraised(e) == e

\* if exc_type is not None: os.unlink(...) else: os.replace(...)
AlwaysReplace == "x_replace"
AfterClose == IF exc # NoErr THEN "x_unlink" ELSE "x_replace"

\* finally: os.close(fd) runs whether or not an error is on its way out;
\* whether the directory descriptor is still open afterwards.
DirFdLeakedOnError(err) == err # NoErr
DirFdAfter(err) == FALSE

\* finally: os.close(fd); then the kept error propagates, or sync_dir returns to
\* SyncFile.close (and so to __exit__, past self.fd.close()) or to the end of
\* __exit__.
SdClose ==
    /\ pc = "sd_close" /\ ~crashed
    /\ UNCHANGED <<auxVars, barrier, enterErr>>
    /\ dirfd' = DirFdAfter(sdErr)
    /\ sdErr' = NoErr
    /\ sdLog' = [sdLog EXCEPT !.st = "returned", !.out = sdErr]
    /\ IF sdErr # NoErr
       THEN raised' = sdErr /\ pc' = "done"
       ELSE IF sdRet = "close"
            THEN pc' = AfterClose /\ UNCHANGED raised
            ELSE pc' = "done" /\ raised' = Reraised(exc)
    /\ xlog' = Append(xlog, "sd_close")
    /\ UNCHANGED <<syRet, sdRet, exc, buf, fdOpen, fileno, fsVars, crashed, histVars>>

\* ------------------------------------------------------------------ SaveFile.__exit__
\* os.unlink(self.tmppath); return
UnlinksTarget == path
ExitUnlinkPath == tmppath

ExitUnlink ==
    /\ pc = "x_unlink" /\ ~crashed
    /\ UNCHANGED <<auxVars, barrier, enterErr>>
    /\ pc' = "done"
    /\ IF ~Exists(names, ExitUnlinkPath)
       THEN /\ raised' = Err("ENOENT", "unlink", "exit")
            /\ UNCHANGED <<names, journal, xlog>>
       ELSE \/ /\ names' = Unlink(names, ExitUnlinkPath)
               /\ journal' = Append(journal, names')
               /\ xlog' = Append(xlog, "unlink")
               /\ raised' = Reraised(exc)
            \/ \E c \in MayRaise :
               /\ raised' = Err(c, "unlink", "exit")
               /\ UNCHANGED <<names, journal, xlog>>
    /\ UNCHANGED <<syRet, exc, buf, fdOpen, fileno, sdVars, data, dnames, ddata,
                   crashed, histVars>>

\* os.replace(self.tmppath, self.path): the target name now leads to the staged
\* file and the temporary name is gone, in one step.  Then
\* platform.sync_dir(os.path.dirname(self.path)) is called.
ReplaceKeepsSource(dir, src, dst) == Link(dir, dst, dir[src])
Replace(dir, src, dst) == Rename(dir, src, dst)

ExitReplace ==
    /\ pc = "x_replace" /\ ~crashed
    /\ UNCHANGED <<auxVars, barrier, enterErr>>
    /\ IF ~Exists(names, tmppath)
       THEN /\ raised' = Err("ENOENT", "replace", "exit")
            /\ pc' = "done"
            /\ UNCHANGED <<names, journal, xlog, sdRet, sdLog>>
       ELSE \/ /\ names' = Replace(names, tmppath, path)
               /\ journal' = Append(journal, names')
               /\ xlog' = Append(xlog, "replace")
               /\ pc' = "sd_open" /\ sdRet' = "exit" /\ sdLog' = RunningLog
               /\ UNCHANGED raised
            \/ \E c \in MayRaise :
               /\ raised' = Err(c, "replace", "exit")
               /\ pc' = "done"
               /\ UNCHANGED <<names, journal, xlog, sdRet, sdLog>>
    /\ UNCHANGED <<syRet, exc, buf, fdOpen, fileno, dirfd, sdErr, data, dnames, ddata,
                   crashed, histVars>>

\* ------------------------------------------------------------------ the environment
\* Background writeback: one more byte of some file becomes durable.
Writeback ==
    /\ ~crashed
    /\ UNCHANGED <<auxVars, barrier, enterErr>>
    /\ \E i \in 1..Len(data) :
          /\ Len(ddata[i]) < Len(data[i])
          /\ ddata' = [ddata EXCEPT ![i] = SubSeq(data[i], 1, Len(@) + 1)]
    /\ UNCHANGED <<pc, syRet, exc, raised, buf, fdOpen, fileno, sdVars, names, data, dnames,
                   journal, crashed, histVars, xlog>>

\* Background journal commit: the oldest pending directory change becomes durable.
JournalCommit ==
    /\ ~crashed
    /\ UNCHANGED <<auxVars, barrier, enterErr>>
    /\ journal # <<>>
    /\ dnames' = Head(journal)
    /\ journal' = Tail(journal)
    /\ UNCHANGED <<pc, syRet, exc, raised, buf, fdOpen, fileno, sdVars, names, data, ddata,
                   crashed, histVars, xlog>>

\* Process crash or power loss, at any step or after the transaction: only the
\* durable view is left, buffers and descriptors are gone.
Crash ==
    /\ ~crashed
    /\ UNCHANGED <<auxVars, barrier, enterErr>>
    /\ crashed' = TRUE
    /\ names' = dnames
    /\ data' = ddata
    /\ journal' = <<>>
    /\ buf' = <<>>
    /\ fdOpen' = FALSE
    /\ dirfd' = FALSE
    /\ UNCHANGED <<pc, syRet, sdRet, exc, raised, fileno, sdErr, sdLog, dnames, ddata,
                   histVars, xlog>>

Next ==
    \/ EnterUnlink \/ EnterOpen
    \/ Write \/ BodySync \/ BodyRaise \/ BodyEnd
    \/ Flush \/ Fdatasync \/ Fadvise
    \/ FdClose
    \/ SdOpen \/ SdFsync \/ SdClose
    \/ ExitUnlink \/ ExitReplace
    \/ Writeback \/ JournalCommit \/ Crash

Spec == Init /\ [][Next]_vars

\* ------------------------------------------------------------------ transactions in sequence
MaxTxns == 2

\* Files that no name leads to, in the volatile or the durable directory or in
\* a pending directory change, are freed once no descriptor holds them; the
\* files that stay are numbered anew, in their old order.
Range(f) == {f[x] : x \in DOMAIN f}
LiveInodes ==
    Range(names) \cup Range(dnames) \cup UNION {Range(journal[j]) : j \in 1..Len(journal)}
Rank(i, live) == Cardinality({j \in live : j <= i})
Renumbered(dat, live) ==
    [r \in 1..Cardinality(live) |-> dat[CHOOSE i \in live : Rank(i, live) = r]]
Relinked(dir, live) == [q \in DOMAIN dir |-> Rank(dir[q], live)]

\* After a transaction has ended, or after a crash and reboot, the caller runs
\* the next SaveFile(path) transaction.  The earlier session object is gone; if
\* it still held its descriptor (close() never reached self.fd.close()), the
\* file object's finaliser hands over what it can of the buffer and closes.
\* The new transaction finds whatever the earlier one left under both names.
Restart ==
    /\ pc = "done" \/ crashed
    /\ txn < MaxTxns
    /\ txn' = txn + 1
    /\ \E k \in 0..Len(buf) :
          /\ (~fdOpen => k = 0)
          /\ LET dat == IF k = 0 THEN data ELSE Flushed(data, fileno, SubSeq(buf, 1, k))
                 live == LiveInodes
             IN  /\ data' = Renumbered(dat, live)
                 /\ ddata' = Renumbered(ddata, live)
                 /\ names' = Relinked(names, live)
                 /\ dnames' = Relinked(dnames, live)
                 /\ journal' = [j \in 1..Len(journal) |-> Relinked(journal[j], live)]
    /\ old' = ReadFile(names', data', path)
    /\ stale' = ReadFile(names', data', tmppath)
    /\ crashed' = FALSE
    /\ pc' = "enter_unlink"
    /\ syRet' = "none" /\ sdRet' = "none"
    /\ exc' = NoErr /\ raised' = NoErr
    /\ buf' = <<>> /\ fdOpen' = FALSE /\ fileno' = 0
    /\ dirfd' = FALSE /\ sdErr' = NoErr /\ sdLog' = IdleLog
    /\ written' = <<>> /\ nwrites' = 0 /\ nsyncs' = 0
    /\ xlog' = <<>> /\ barrier' = 0 /\ enterErr' = NoErr
    /\ UNCHANGED <<me, other, faults, gfSt, gfPath, gfOut>>

NextSeq == Next \/ Restart

\* The first transaction of a sequence finds no temporary file: in a sequence
\* the stale files are those that earlier transactions leave behind.
InitSeq == Init /\ stale = {}

SpecSeq == InitSeq /\ [][NextSeq]_vars

\* ------------------------------------------------------------------ two transactions at once
\* Two SaveFile objects on the same path, each in a thread or process of its
\* own.  Both compute the same tmppath (path + SUFFIX) and work on the same
\* directory.  The variables pc .. enterErr and txn hold the state of the
\* transaction that takes the next step; the state of the other one is parked
\* in "other".  The scheduler may pass control between any two OS calls.
Locals ==
    [pc |-> pc, syRet |-> syRet, sdRet |-> sdRet, exc |-> exc, raised |-> raised,
     buf |-> buf, fdOpen |-> fdOpen, fileno |-> fileno, dirfd |-> dirfd,
     sdErr |-> sdErr, sdLog |-> sdLog, written |-> written, nwrites |-> nwrites,
     nsyncs |-> nsyncs, xlog |-> xlog, barrier |-> barrier, enterErr |-> enterErr,
     txn |-> txn]

\* SaveFile.__init__ has run, __enter__ has not started.
FreshLocals(k) ==
    [pc |-> "enter_unlink", syRet |-> "none", sdRet |-> "none", exc |-> NoErr,
     raised |-> NoErr, buf |-> <<>>, fdOpen |-> FALSE, fileno |-> 0, dirfd |-> FALSE,
     sdErr |-> NoErr, sdLog |-> IdleLog, written |-> <<>>, nwrites |-> 0,
     nsyncs |-> 0, xlog |-> <<>>, barrier |-> 0, enterErr |-> NoErr, txn |-> k]

\* The scheduler passes control to the other transaction.
Switch ==
    /\ other.pc # "done"
    /\ me' = other.txn /\ other' = Locals
    /\ pc' = other.pc /\ syRet' = other.syRet /\ sdRet' = other.sdRet
    /\ exc' = other.exc /\ raised' = other.raised
    /\ buf' = other.buf /\ fdOpen' = other.fdOpen /\ fileno' = other.fileno
    /\ dirfd' = other.dirfd /\ sdErr' = other.sdErr /\ sdLog' = other.sdLog
    /\ written' = other.written /\ nwrites' = other.nwrites /\ nsyncs' = other.nsyncs
    /\ xlog' = other.xlog /\ barrier' = other.barrier /\ enterErr' = other.enterErr
    /\ txn' = other.txn
    /\ UNCHANGED <<fsVars, crashed, old, stale, faults, gfSt, gfPath, gfOut>>

\* The state of transaction t, whether it is the one running or the parked one.
Local(t) == IF me = t THEN Locals ELSE other

\* Both objects are constructed before either enters; the target is absent or
\* holds one old content and no temporary file is there yet.
InitConc ==
    /\ InitTransaction
    /\ stale = {} /\ old \in {{}, {<<"o">>}}
    /\ me = 1 /\ txn = 1 /\ other = FreshLocals(2)
    /\ faults = FALSE
    /\ NoFlagsCall

\* The steps of the two transactions in any interleaving.  No crash, and an OS
\* call fails only for what the other transaction did to the directory
\* (FileNotFoundError, FileExistsError).
NextConc ==
    \/ EnterUnlink \/ EnterOpen
    \/ Write \/ BodySync \/ BodyRaise \/ BodyEnd
    \/ Flush \/ Fdatasync \/ Fadvise
    \/ FdClose
    \/ SdOpen \/ SdFsync \/ SdClose
    \/ ExitUnlink \/ ExitReplace
    \/ Switch

SpecConc == InitConc /\ [][NextConc]_vars

\* ------------------------------------------------------------------ get_flags
MaxFlags == 3

\* Stat values: with a flag field (platforms with BSD flags) and without one.
Modes == {"file", "dir", "link"}
Stats ==
    {[st_mode |-> m] : m \in Modes}
        \cup {[st_mode |-> m, st_flags |-> f] : m \in Modes, f \in 0..MaxFlags}
FlagPaths == {path, tmppath, <<"Q">>}

\* return getattr(st, 'st_flags', 0)
get_flags_stub(p, st) == 0
get_flags(p, st) == IF "st_flags" \in DOMAIN st THEN st.st_flags ELSE 0

\* A call get_flags(gfPath, gfSt).
GetFlags ==
    /\ gfOut = {}
    /\ gfSt \in Stats
    /\ gfOut' = {get_flags(gfPath, gfSt)}
    /\ UNCHANGED <<pc, syRet, sdRet, exc, raised, buf, fdOpen, fileno, dirfd, sdErr, sdLog,
                   fsVars, crashed, histVars, xlog, barrier, enterErr, me, other, faults, txn,
                   gfSt, gfPath>>

\* get_flags called on any path and any stat value, over any file system state
\* a transaction may start from.
InitFlags ==
    /\ InitTransaction
    /\ me = 1 /\ other = "none" /\ faults = TRUE /\ txn = 1
    /\ gfSt \in Stats /\ gfPath \in FlagPaths /\ gfOut = {}

NextFlags == GetFlags

SpecFlags == InitFlags /\ [][NextFlags]_vars

\* ------------------------------------------------------------------ shorthands
Done == pc = "done" /\ ~crashed
NormalWork == exc = NoErr
Did(step) == \E i \in 1..Len(xlog) : xlog[i] = step

TypeOK ==
    /\ faults \in BOOLEAN
    /\ crashed \in BOOLEAN /\ fdOpen \in BOOLEAN /\ dirfd \in BOOLEAN
    /\ nwrites \in 0..MaxWrites /\ nsyncs \in 0..MaxSyncs
    /\ Len(written) <= nwrites
    /\ Len(data) = Len(ddata)
    /\ \A i \in 1..Len(data) : IsPrefix(ddata[i], data[i])
    /\ \A p \in DOMAIN names : names[p] \in 1..Len(data)
    /\ \A p \in DOMAIN dnames : dnames[p] \in 1..Len(ddata)

\* ------------------------------------------------------------------ claims
Succeeded == pc = "done" /\ NormalWork /\ raised = NoErr
NewContent == IF Did("replace") THEN {written} ELSE old

\* C1 (crash atomicity): after a crash at any step of the transaction, or after
\* it, the target holds the complete old content (or is absent, as before) or
\* the complete content written in the transaction.
C1_CrashAtomicity ==
    crashed => (Read(path) = old \/ Read(path) = {written})

\* A crash during the last directory sync, with the rename already committed
\* by the journal: the target holds both written bytes in place of old content.
C1_Witness ==
    /\ crashed /\ pc = "sd_fsync" /\ sdRet = "exit"
    /\ old # {} /\ Len(written) = MaxWrites
    /\ Read(path) = {written}

\* C2 (atomicity): after a transaction whose scoped work raised nothing and
\* whose __exit__ returned without error, the target reads as exactly the bytes
\* passed to write(), in program order.
C2_Atomicity ==
    (Succeeded /\ ~crashed) => Read(path) = {written}

C2_Witness ==
    /\ Succeeded /\ ~crashed
    /\ old # {} /\ stale # {}
    /\ written = <<"n", "m">>

\* C3 (rollback): after a transaction whose scoped work raised, and whatever
\* was written to the session, the target reads as it did before __enter__.
C3_Rollback ==
    (Done /\ ~NormalWork) => Read(path) = old

C3_Witness ==
    /\ Done /\ ~NormalWork /\ Did("unlink")
    /\ old # {} /\ Len(written) = MaxWrites

\* C4 (visibility): while the process runs, what a reader of the target obtains
\* is the old content (or no file) in every state before os.replace and the full
\* new content in every state after it, and it changes only in the os.replace
\* step.
C4_Visibility ==
    /\ [](~crashed => Read(path) = NewContent)
    /\ [][(~crashed' /\ Read(path)' # Read(path))
            => (pc = "x_replace" /\ ~Did("replace") /\ Did("replace")')]_vars

C4_Witness ==
    /\ ~crashed /\ Did("replace")
    /\ Read(path) # old /\ Read(path) = {written}

\* C5 as stated: whenever __exit__ returned without error on the normal-exit
\* path, the target durably holds the complete new content.
C5_Original ==
    Succeeded => DurableRead(path) = {written}

\* C5 (durability), amended: whenever __exit__ returned without error on the
\* normal-exit path the written content is durable, and the rename is durable
\* too when the last directory sync succeeded instead of failing with the
\* tolerated EINVAL.
C5_Durability ==
    Succeeded =>
        /\ ddata[fileno] = written
        /\ sdLog.sync = NoErr => DurableRead(path) = {written}

\* A crash after such a transaction.
C5_Witness ==
    /\ Succeeded /\ crashed /\ sdLog.sync = NoErr
    /\ old # {} /\ Len(written) = MaxWrites
    /\ Read(path) = {written}

\* C6 as stated: whenever the transaction ends by propagating an error, the
\* target reads as before the transaction.
C6_Original ==
    (Done /\ raised # NoErr) => Read(path) = old

FromLastDirSync(e) == e.ctx = "exit" /\ e.at \in {"sd_open", "sd_fsync"}

\* C6 (target untouched on error), amended: whenever the transaction ends by
\* propagating an error, the target reads as before the transaction unless the
\* error comes from the directory sync that follows os.replace; then the target
\* holds the complete new content.
C6_TargetOnError ==
    (Done /\ raised # NoErr) =>
        /\ Did("replace") <=> FromLastDirSync(raised)
        /\ Read(path) = NewContent

\* A failed session close: the error propagates, the target is as before and
\* the temporary file is orphaned.
C6_Witness ==
    /\ Done /\ raised.ctx = "close"
    /\ old # {} /\ written # <<>>
    /\ Read(path) = old /\ Exists(names, tmppath)

\* C7 as stated: on every abnormal exit the error that reaches the caller is
\* the error the scoped work raised.
C7_Original ==
    (Done /\ ~NormalWork) => raised = exc

\* C7 (original error preserved), amended: on an abnormal exit the error of the
\* scoped work reaches the caller when the session close and the unlink
\* complete (a tolerated EINVAL of the directory sync included); when a step of
\* the close or the unlink raises, that error reaches the caller instead.
C7_ErrorPreserved ==
    (Done /\ ~NormalWork) =>
        /\ raised # NoErr
        /\ Did("unlink") => raised = exc
        /\ ~Did("unlink") => (raised # exc /\ raised.ctx \in {"close", "exit"})

C7_Witness ==
    /\ Done /\ ~NormalWork /\ Did("unlink") /\ Did("sd_fsync_unsupported")
    /\ raised = exc

\* __enter__ returned a session, so the scoped work ran and __exit__ was called.
Entered == fileno # 0

\* C8 as stated: after every normal exit (the scoped work completed without
\* error and __exit__ has run), the temporary path does not exist.
C8_Original ==
    (Done /\ Entered /\ NormalWork) => ~Exists(names, tmppath)

\* C8 (no leakage on success), amended: after a normal exit the temporary path
\* does not exist exactly when os.replace was executed, which includes every
\* exit in which __exit__ returns without error; when the session close or
\* os.replace raises, the temporary file is left behind.
C8_NoTmpOnSuccess ==
    (Done /\ Entered /\ NormalWork) =>
        /\ Exists(names, tmppath) <=> ~Did("replace")
        /\ raised = NoErr => Did("replace")

C8_Witness ==
    /\ Succeeded /\ ~crashed /\ stale # {}
    /\ ~Exists(names, tmppath) /\ Exists(names, path)

\* C9 (no leakage on failure): after an abnormal exit whose cleanup (session
\* close, then unlink of the temporary path) completed, the temporary path does
\* not exist.
C9_NoTmpOnFailure ==
    (Done /\ ~NormalWork /\ Did("close") /\ Did("unlink")) => ~Exists(names, tmppath)

C9_Witness ==
    /\ Done /\ ~NormalWork /\ Did("close") /\ Did("unlink")
    /\ written # <<>> /\ ~Exists(names, tmppath)

\* C10 (sync tolerance): a sync_dir call whose fsync failed with EINVAL returns
\* normally; an error of any other class from the fsync, and any error from the
\* open, leaves sync_dir unchanged and reaches the caller.
C10_SyncTolerance ==
    sdLog.st = "returned" =>
        /\ sdLog.open # NoErr => sdLog.out = sdLog.open
        /\ sdLog.sync.cls = "EINVAL" => sdLog.out = NoErr
        /\ (sdLog.sync # NoErr /\ sdLog.sync.cls # "EINVAL") => sdLog.out = sdLog.sync
        /\ sdLog.out # NoErr => (pc = "done" /\ raised = sdLog.out)

C10_Witness ==
    /\ sdLog.st = "returned" /\ sdLog.sync.cls = "EINVAL"
    /\ sdLog.out = NoErr /\ ~crashed /\ pc # "done"

\* C11 (durability barrier): once a sync() call has returned without error,
\* every byte written before it is on stable storage, whatever was written
\* afterwards and wherever a crash falls.
C11_Barrier ==
    Entered =>
        /\ barrier <= Len(ddata[fileno])
        /\ SubSeq(ddata[fileno], 1, barrier) = SubSeq(written, 1, barrier)

\* A crash after write, sync, write: the first byte survived, the second did not.
C11_Witness ==
    /\ crashed /\ Entered /\ pc = "body"
    /\ barrier = 1 /\ Len(written) = 2
    /\ ddata[fileno] = SubSeq(written, 1, 1)

\* C13 (enter failure): when an OS call of __enter__ raises an error that is not
\* the tolerated file-not-found, __enter__ ends there, that error reaches the
\* caller, no session exists, the target is untouched, and the temporary path
\* holds no file of this transaction (the stale one when the unlink failed,
\* none when the open failed).
C13_EnterFailure ==
    (enterErr # NoErr /\ ~crashed) =>
        /\ pc = "done" /\ raised = enterErr
        /\ ~Entered /\ ~fdOpen
        /\ Read(path) = old
        /\ Read(tmppath) = IF enterErr.at = "unlink" THEN stale ELSE {}

\* The open fails after the stale temporary file was removed.
C13_Witness ==
    /\ Done /\ enterErr # NoErr /\ enterErr.at = "open"
    /\ stale # {} /\ old # {}
    /\ raised = enterErr /\ Read(tmppath) = {}

\* The steps of __exit__ on the normal path, in order.  The directory sync is the
\* open, the fsync (or its tolerated failure) and the close of the directory.
\* A directory sync whose fsync raises an error that propagates completes only
\* the open and the close.
DirSyncSteps(tolerated) ==
    <<"sd_open", IF tolerated THEN "sd_fsync_unsupported" ELSE "sd_fsync", "sd_close">>
FailedDirSync == <<"sd_open", "sd_close">>
CloseSteps == <<"flush", "fdatasync", "fadvise", "close">>
NormalSteps(t1, t2) ==
    CloseSteps \o DirSyncSteps(t1) \o <<"replace">> \o DirSyncSteps(t2)

\* C15 (step ordering on normal exit): the steps completed by __exit__ are, in
\* this order, flush, data-sync, (cache advice,) descriptor close, directory
\* sync, rename, directory sync; so the rename is executed only after every
\* earlier step completed, and only with all written bytes data-synced.
C15_StepOrder ==
    (Entered /\ NormalWork) =>
        /\ \/ \E t1, t2 \in BOOLEAN : IsPrefix(xlog, NormalSteps(t1, t2))
           \/ /\ pc = "done" /\ raised.at = "sd_fsync"
              /\ \/ xlog = CloseSteps \o FailedDirSync
                 \/ \E t1 \in BOOLEAN :
                       xlog = CloseSteps \o DirSyncSteps(t1) \o <<"replace">> \o FailedDirSync
        /\ Did("replace") => ddata[fileno] = written

C15_Witness ==
    /\ Succeeded /\ ~crashed /\ Len(written) = MaxWrites
    /\ xlog = NormalSteps(TRUE, FALSE)

\* C17 (close failure on normal exit): when the scoped work raised nothing and
\* a step of the session close raises, __exit__ ends there with that error, the
\* rename is not executed, the target keeps its old content and the temporary
\* file stays on disk.
C17_CloseFailure ==
    (NormalWork /\ raised.ctx = "close" /\ ~crashed) =>
        /\ pc = "done"
        /\ ~Did("replace")
        /\ Read(path) = old
        /\ Exists(names, tmppath) /\ names[tmppath] = fileno

\* The directory sync inside close() fails with an error that is not tolerated.
C17_Witness ==
    /\ Done /\ NormalWork /\ raised.ctx = "close" /\ raised.at = "sd_fsync"
    /\ old # {} /\ written # <<>>
    /\ Read(path) = old /\ Read(tmppath) = {written}

\* C19 as stated: once __exit__ has run, and with it SyncFile.close(), the
\* session's descriptor is released, whatever the outcome of close().
C19_Original ==
    (Done /\ Entered) => ~fdOpen

\* C20 (directory descriptor release): outside a running sync_dir call no
\* directory descriptor is open: a call that opened the directory has closed it
\* when it returns or raises, and a call whose open failed holds none.
C20_DirFdReleased ==
    (sdLog.st # "running" \/ pc \notin {"sd_fsync", "sd_close"}) => ~dirfd

\* A sync_dir call whose fsync raised an error that propagates has returned.
C20_Witness ==
    /\ ~crashed /\ sdLog.st = "returned"
    /\ sdLog.sync # NoErr /\ sdLog.out = sdLog.sync
    /\ Did("sd_open") /\ ~dirfd

\* C14 (capability degradation): get_flags returns the stat value's flag field
\* when it has one and zero when it has none, for every path, and leaves the
\* file system as it was.
C14_GetFlags ==
    gfOut # {} =>
        /\ \A f \in 0..MaxFlags : f \in gfOut <=>
               \/ ("st_flags" \in DOMAIN gfSt /\ gfSt.st_flags = f)
               \/ ("st_flags" \notin DOMAIN gfSt /\ f = 0)
        /\ Read(path) = old /\ Read(tmppath) = stale
        /\ names = dnames /\ data = ddata /\ journal = <<>>

\* A call on a stat value that carries a non-zero flag field.
C14_Witness ==
    /\ gfOut # {} /\ "st_flags" \in DOMAIN gfSt
    /\ gfSt.st_flags = MaxFlags /\ gfOut = {MaxFlags}

\* The bytes of a file's content, if there is such a file.
BytesOf(file) == UNION {Range(c) : c \in file}

\* C18 (stale temporary file recovery): in a sequence of transactions on one
\* target, a temporary file left by an earlier transaction keeps no later one
\* from entering (__enter__ fails only with an error an OS call raised, never
\* because the name exists), the later transaction stages only its own bytes,
\* and the target never holds a byte of the stale file: while the machine is
\* up it holds what it held before the transaction or exactly the bytes
\* written in it.
C18_StaleRecovery ==
    /\ enterErr # NoErr => enterErr.cls \in OSErr
    /\ Range(written) \subseteq TxnBytes(txn)
    /\ BytesOf(stale) \cap TxnBytes(txn) = {}
    /\ Entered => IsPrefix(data[fileno], written)
    /\ ~crashed => (Read(path) = old \/ Read(path) = {written})
    /\ BytesOf(Read(path)) \cap BytesOf(stale) = {}

\* The second transaction found a non-empty temporary file of the first one
\* and replaced the target with its own bytes.
C18_Witness ==
    /\ txn = 2 /\ BytesOf(stale) # {} /\ BytesOf(stale) \subseteq TxnBytes(1)
    /\ Succeeded /\ ~crashed
    /\ Len(written) = MaxWrites /\ Read(path) = {written}
    /\ ~Exists(names, tmppath)

\* C12 (exclusive create): whenever the open of SyncFile.__init__ is made on a
\* path at which a file exists, it raises FileExistsError, the session gets no
\* descriptor, and the directory and every file's content stay as they were;
\* a descriptor is obtained only when the path did not exist, for a new empty
\* file, with every other name and content as before.
C12_ExclusiveCreate ==
    [][(pc = "enter_open" /\ me' = me /\ pc' \in {"body", "done"}) =>
          IF Exists(names, SessionPath)
          THEN /\ raised'.cls = "EEXIST" /\ pc' = "done"
               /\ ~fdOpen' /\ fileno' = 0
               /\ names' = names /\ data' = data
          ELSE fdOpen' =>
               /\ fileno' \notin Range(names)
               /\ names' = Link(names, SessionPath, fileno')
               /\ data'[fileno'] = <<>>
               /\ \A i \in 1..Len(data) : data'[i] = data[i]]_vars

\* A transaction found the temporary name taken by the file the other one had
\* just created: it ended with FileExistsError and without a descriptor, and
\* the other one still holds its file under that name.
C12_Witness ==
    /\ pc = "done" /\ enterErr.cls = "EEXIST" /\ raised = enterErr
    /\ ~fdOpen /\ fileno = 0
    /\ other.fdOpen /\ Exists(names, tmppath) /\ names[tmppath] = other.fileno

\* The two transactions; what each has written; whether its scoped work is over.
Txns == {1, 2}
W(t) == Local(t).written
BodyOver(t) == Local(t).syRet = "close"
Replaced(t) == \E i \in 1..Len(Local(t).xlog) : Local(t).xlog[i] = "replace"
Exited(t) == Local(t).pc = "done"

\* C16 as stated: with two interleaved transactions on one target, a reader of
\* the target sees at every point the prior content or the complete content of
\* a transaction whose scoped work is over, and once both have exited after a
\* rename the target holds the complete content of one that renamed.
C16_Original ==
    /\ Read(path) = old \/ \E t \in Txns : BodyOver(t) /\ Read(path) = {W(t)}
    /\ ((\A t \in Txns : Exited(t)) /\ (\E t \in Txns : Replaced(t))) =>
           \E t \in Txns : Replaced(t) /\ Read(path) = {W(t)}

\* C16 (concurrent transactions on one target), amended: both transactions
\* stage under the one name path + SUFFIX, so a rename moves whichever
\* transaction's file has that name at the moment.  At every point the target
\* holds its prior content or is the file staged by one transaction, holding a
\* leading part of that transaction's bytes and no byte of the other's; once
\* both have exited (no OS call failing for any other reason) the target holds
\* its prior content or all the bytes written by one of them.
C16_SharedTemp ==
    /\ \/ Read(path) = old
       \/ \E t \in Txns :
             /\ Exists(names, path) /\ names[path] = Local(t).fileno
             /\ IsPrefix(data[names[path]], W(t))
    /\ (\A t \in Txns : Exited(t)) =>
           (Read(path) = old \/ \E t \in Txns : Read(path) = {W(t)})
    /\ \A t \in Txns : Local(t).fdOpen => Range(W(t)) \subseteq TxnBytes(t)

\* One transaction has exited without error after its rename, and the target
\* is the other transaction's file, which holds only part of what that one has
\* written so far.
C16_Witness ==
    \E t \in Txns :
        LET u == 3 - t IN
        /\ Exited(t) /\ Replaced(t) /\ Local(t).raised = NoErr
        /\ Local(t).written # <<>>
        /\ Exists(names, path) /\ names[path] = Local(u).fileno
        /\ Local(u).fdOpen
        /\ Len(data[names[path]]) < Len(W(u))

====
